---------------------------- MODULE Spec2Model ----------------------------
(***************************************************************************)
(* A model of src/lib/actions.ts, the server actions of the case           *)
(* simulator: unboxCase, addItemToDB, addItemsToDB, getItemsFromDB,        *)
(* getTotalItemsFromDB and getOrCreateUnboxerIdCookie.                     *)
(*                                                                         *)
(* JavaScript values are records [k, s]: k is the type tag, s the text of  *)
(* a string.  A cookie read is <<>> (no cookie) or <<value>>.              *)
(*                                                                         *)
(* cookies() is the cookie store of one request: it starts as the cookie   *)
(* the browser sent, and what the call sets reaches the browser with the   *)
(* response.  getOrCreateUnboxerIdCookie awaits nothing, so it runs to its *)
(* end when it is called; a call is cut where it awaits the database.      *)
(* cookies().set may throw, and a statement of the database may fail.      *)
(*                                                                         *)
(* The catalog, getItem and the schema of the items table are not in       *)
(* actions.ts: two cases of the catalog stand for it, getItem returns any  *)
(* item of the case, and a row is its columns under an auto-increment id.  *)
(*                                                                         *)
(* Spec interleaves up to MaxCalls calls of one visitor on an empty table. *)
(* SpecOne makes one call, with more inputs, on a table that holds rows    *)
(* already, more than the limit of the select among them.                  *)
(***************************************************************************)
EXTENDS Integers, Sequences, FiniteSets, Bags, TLC

\* ------------------------------------------------------------------ bounds

\* The number of calls of exported actions in one behaviour.
MaxCalls == 2

\* The tables SpecQuery starts from have 0..MaxSmall rows, or
\* Limit - 1 .. Limit + MaxOver rows.
MaxSmall == 2
MaxOver == 2

\* ------------------------------------------------------------ JS values

Str(s) == [k |-> "string", s |-> s]
Null == [k |-> "null", s |-> ""]
Undefined == [k |-> "undefined", s |-> ""]
Num(s) == [k |-> "number", s |-> s]

\* z.string()
IsString(x) == x.k = "string"

\* String.prototype.startsWith
StartsWith(s, p) == Len(s) >= Len(p) /\ SubSeq(s, 1, Len(p)) = p

\* The i-th character of s, as a string of length one.
Ch(s, i) == SubSeq(s, i, i)

\* ------------------------------------------------------------ dataSchema

\* The refinement of both image fields.
TrustedImage(url) ==
    \/ StartsWith(url, "https://raw.githubusercontent.com/ByMykel")
    \/ StartsWith(url, "https://steamcdn-a.akamaihd.net/apps/730/icons")

\* z.string().refine(...)
ImageField(x) == IsString(x) /\ TrustedImage(x.s)

\* z.string().optional().nullable()
PhaseField(x) == x.k \in {"string", "undefined", "null"}

\* dataSchema without the refinement of itemData.image.
DataSchema_NoItemImage(d) ==
    /\ IsString(d.caseData.id)
    /\ IsString(d.caseData.name)
    /\ ImageField(d.caseData.image)
    /\ IsString(d.itemData.id)
    /\ IsString(d.itemData.name)
    /\ IsString(d.itemData.rarity.name)
    /\ PhaseField(d.itemData.phase)

\* dataSchema.safeParse(d).success, d = [caseData, itemData]
DataSchema(d) ==
    /\ IsString(d.caseData.id)
    /\ IsString(d.caseData.name)
    /\ ImageField(d.caseData.image)
    /\ IsString(d.itemData.id)
    /\ IsString(d.itemData.name)
    /\ IsString(d.itemData.rarity.name)
    /\ PhaseField(d.itemData.phase)
    /\ ImageField(d.itemData.image)

\* z.array(dataSchema).safeParse(data).success
ArraySchema(data) == \A i \in 1..Len(data) : DataSchema(data[i])

\* --------------------------------------------------------------- UUIDs

HexChars == {Ch("0123456789abcdefABCDEF", i) : i \in 1..22}

IsHex(s, from, to) == \A i \in from..to : Ch(s, i) \in HexChars

\* The pattern with [0-9a-f] for the version and the variant digit.
IsValidUUID_AnyVersion(s) ==
    /\ Len(s) = 36
    /\ IsHex(s, 1, 8) /\ Ch(s, 9) = "-"
    /\ IsHex(s, 10, 13) /\ Ch(s, 14) = "-"
    /\ IsHex(s, 15, 18) /\ Ch(s, 19) = "-"
    /\ IsHex(s, 20, 23) /\ Ch(s, 24) = "-"
    /\ IsHex(s, 25, 36)

\* The regular expression of getOrCreateUnboxerIdCookie, flag i included.
IsValidUUID(s) ==
    /\ Len(s) = 36
    /\ IsHex(s, 1, 8) /\ Ch(s, 9) = "-"
    /\ IsHex(s, 10, 13) /\ Ch(s, 14) = "-"
    /\ Ch(s, 15) \in {"0", "1", "2", "3", "4", "5"}
    /\ IsHex(s, 16, 18) /\ Ch(s, 19) = "-"
    /\ Ch(s, 20) \in {"0", "8", "9", "a", "b", "A", "B"}
    /\ IsHex(s, 21, 23) /\ Ch(s, 24) = "-"
    /\ IsHex(s, 25, 36)

\* crypto.randomUUID(): the n-th identifier generated.  Only that it is a
\* version 4 UUID unlike every one before it matters; n <= 15.
RandomUUID(n) ==
    "0000000" \o Ch("0123456789abcdef", n + 1) \o "-0000-4000-8000-000000000000"


\* The cookie store of one request: cookies().get("unboxerId") is
\* existing, <<>> or <<value>>.  n identifiers were generated before; setOk
\* says whether cookies().set succeeds (it throws where cookies are
\* read-only).  The result: threw, the identifier returned, the store
\* afterwards, the Set-Cookie of the response, whether randomUUID ran.
GetOrCreateUnboxerIdCookie(existing, n, setOk) ==
    IF existing # <<>> /\ IsValidUUID(existing[1])
    THEN [threw |-> FALSE, id |-> existing[1], store |-> existing,
          set |-> <<>>, gen |-> FALSE]
    ELSE IF setOk
         THEN [threw |-> FALSE, id |-> RandomUUID(n + 1),
               store |-> <<RandomUUID(n + 1)>>,
               set |-> <<RandomUUID(n + 1)>>, gen |-> TRUE]
         ELSE [threw |-> TRUE, id |-> "", store |-> existing,
               set |-> <<>>, gen |-> TRUE]

\* ------------------------------------------------------------- catalog

ImgA == "https://raw.githubusercontent.com/ByMykel/a.png"
ImgB == "https://steamcdn-a.akamaihd.net/apps/730/icons/b.png"

ItemPlain ==
    [id |-> Str("skin-1"), name |-> Str("P250 | Sand Dune"),
     rarity |-> [name |-> Str("Mil-Spec Grade")], phase |-> Undefined,
     image |-> Str(ImgB)]

ItemCovert ==
    [id |-> Str("skin-2"), name |-> Str("AWP | Asiimov"),
     rarity |-> [name |-> Str("Covert")], phase |-> Null,
     image |-> Str(ImgA)]

ItemKnife ==
    [id |-> Str("skin-3"), name |-> Str("Karambit | Doppler"),
     rarity |-> [name |-> Str("Extraordinary")], phase |-> Str("Phase 2"),
     image |-> Str(ImgA)]

CaseNormal ==
    [id |-> Str("crate-4001"), name |-> Str("Weapon Case"),
     image |-> Str(ImgA), items |-> <<ItemPlain, ItemCovert>>]

CaseCustom ==
    [id |-> Str("crate-custom-1"), name |-> Str("Custom Case"),
     image |-> Str(ImgB), items |-> <<ItemKnife>>]

\* [...casesLocal, ...customCasesLocal, ...souvenirCasesLocal]
CasesData == <<CaseNormal, CaseCustom>>

\* find with x.id.startsWith(caseId.slice(0, 12)) for x.id === caseId
FindCase_Prefix(caseId) ==
    LET hits == {i \in 1..Len(CasesData) :
                    StartsWith(CasesData[i].id.s,
                               SubSeq(caseId, 1, IF Len(caseId) < 12 THEN Len(caseId) ELSE 12))}
    IN  IF hits = {} THEN <<>>
        ELSE <<CasesData[CHOOSE i \in hits : \A j \in hits : i <= j]>>

\* casesData.find(x => x.id === caseId): <<>> or <<the first match>>
FindCase(caseId) ==
    LET hits == {i \in 1..Len(CasesData) : CasesData[i].id.s = caseId}
    IN  IF hits = {} THEN <<>>
        ELSE <<CasesData[CHOOSE i \in hits : \A j \in hits : i <= j]>>

\* getItem(caseData): the items a draw can return.
GetItem(caseData) == {caseData.items[i] : i \in 1..Len(caseData.items)}

\* The condition of the write dropped.
IsPersisted_Always(caseData) == TRUE

\* !caseData.id.startsWith("crate-custom")
IsPersisted(caseData) == ~StartsWith(caseData.id.s, "crate-custom")

\* The case ids unboxCase is called with; the last two are in no catalog.
CaseIds == {"crate-4001", "crate-custom-1", "crate-0000", "crate-custom-0"}

\* Payloads a client sends to addItemToDB and addItemsToDB.
CaseOf(c) == [id |-> c.id, name |-> c.name, image |-> c.image]

GoodPlain == [caseData |-> CaseOf(CaseNormal), itemData |-> ItemPlain]
GoodKnife == [caseData |-> CaseOf(CaseCustom), itemData |-> ItemKnife]
BadCaseImage ==
    [caseData |-> [CaseOf(CaseNormal) EXCEPT
                     !.image = Str("https://evil.example/ByMykel/a.png")],
     itemData |-> ItemCovert]
BadItemImage ==
    [caseData |-> CaseOf(CaseNormal),
     itemData |-> [ItemCovert EXCEPT
                     !.image = Str("http://steamcdn-a.akamaihd.net/apps/730/icons/b.png")]]
BadName ==
    [caseData |-> CaseOf(CaseNormal),
     itemData |-> [ItemPlain EXCEPT !.name = Num("7")]]

\* What Spec calls addItemToDB and addItemsToDB with, and what SpecOne does.
Payloads == {GoodPlain, BadItemImage}
AllPayloads == {GoodPlain, GoodKnife, BadCaseImage, BadItemImage, BadName}

Batches == {<<>>, <<GoodPlain, GoodKnife>>, <<GoodPlain, BadItemImage>>}
AllBatches ==
    Batches \cup {<<GoodKnife>>, <<BadCaseImage, GoodKnife>>,
                  <<GoodKnife, GoodPlain, BadName>>}

\* ------------------------------------------------------------ database

\* The values of one insert: a column given undefined takes its default, NULL.
Stored(x) == IF x.k = "undefined" THEN Null ELSE x

\* item.itemData.phase ?? null
Coalesce(x) == IF x.k \in {"undefined", "null"} THEN Null ELSE x

\* .values({...}) with the case's name destructured as itemName
ValuesOfItem_CaseNameTwice(caseData, itemData, unboxerId) ==
    [caseId |-> caseData.id.s, caseName |-> caseData.name.s,
     caseImage |-> caseData.image.s, itemId |-> itemData.id.s,
     itemName |-> caseData.name.s, rarity |-> itemData.rarity.name.s,
     phase |-> itemData.phase, itemImage |-> itemData.image.s,
     unboxerId |-> unboxerId]

\* .values({...}) of addItemToDB
ValuesOfItem(caseData, itemData, unboxerId) ==
    [caseId |-> caseData.id.s, caseName |-> caseData.name.s,
     caseImage |-> caseData.image.s, itemId |-> itemData.id.s,
     itemName |-> itemData.name.s, rarity |-> itemData.rarity.name.s,
     phase |-> itemData.phase, itemImage |-> itemData.image.s,
     unboxerId |-> unboxerId]

\* data.map(item => ({...})) of addItemsToDB
ValuesOfItems(data, unboxerId) ==
    [i \in 1..Len(data) |->
        [caseId |-> data[i].caseData.id.s, caseName |-> data[i].caseData.name.s,
         caseImage |-> data[i].caseData.image.s, itemId |-> data[i].itemData.id.s,
         itemName |-> data[i].itemData.name.s,
         rarity |-> data[i].itemData.rarity.name.s,
         phase |-> Coalesce(data[i].itemData.phase),
         itemImage |-> data[i].itemData.image.s,
         unboxerId |-> unboxerId]]

\* The row of values v under the auto-incremented id.
Row(id, v) ==
    [id |-> id, caseId |-> v.caseId, caseName |-> v.caseName,
     caseImage |-> v.caseImage, itemId |-> v.itemId, itemName |-> v.itemName,
     rarity |-> v.rarity, phase |-> Stored(v.phase), itemImage |-> v.itemImage,
     unboxerId |-> v.unboxerId]

\* db.insert(items).values(vals): one statement, all rows or none.
InsertRows(tbl, last, vals) ==
    tbl \cup {Row(last + i, vals[i]) : i \in 1..Len(vals)}

\* inArray(items.rarity, ["Covert", "Extraordinary"])
ItemIsCovert(r) == r.rarity \in {"Covert", "Extraordinary"}

\* eq(items.unboxerId, id)
ItemIsPersonal(id, r) == r.unboxerId = id

\* .where(and(onlyCoverts ? itemIsCovert : undefined,
\*            onlyPersonal ? itemIsPersonal(id) : undefined))
Where(tbl, onlyCoverts, onlyPersonal, id) ==
    {r \in tbl : /\ onlyCoverts => ItemIsCovert(r)
                 /\ onlyPersonal => ItemIsPersonal(id, r)}

MaxId(rows) ==
    IF rows = {} THEN 0 ELSE CHOOSE m \in {r.id : r \in rows} : \A r \in rows : r.id <= m

\* .orderBy(desc(items.id)).limit(n): the row at place j is the one with
\* j - 1 rows of a greater id; id is the primary key.
OrderDescLimit(rows, n) ==
    LET ids == {r.id : r \in rows}
        above == [k \in ids |-> Cardinality({x \in ids : x > k})]
        len == IF Cardinality(rows) < n THEN Cardinality(rows) ELSE n
    IN  [j \in 1..len |-> CHOOSE r \in rows : above[r.id] = j - 1]

\* .limit(100)
Limit == 100

\* The select without .limit(100).
SelectItems_NoLimit(tbl, onlyCoverts, onlyPersonal, id) ==
    OrderDescLimit(Where(tbl, onlyCoverts, onlyPersonal, id), Cardinality(tbl))

\* The select of getItemsFromDB.
SelectItems(tbl, onlyCoverts, onlyPersonal, id) ==
    OrderDescLimit(Where(tbl, onlyCoverts, onlyPersonal, id), Limit)

\* The select with max(items.id) whatever the flags.
SelectTotal_AlwaysMax(tbl, onlyCoverts, onlyPersonal, id) ==
    MaxId(Where(tbl, onlyCoverts, onlyPersonal, id))

\* The select of getTotalItemsFromDB, and totalItems[0].value ?? 0:
\* count() of the rows kept, or max(items.id), NULL on no row.
SelectTotal(tbl, onlyCoverts, onlyPersonal, id) ==
    IF onlyCoverts \/ onlyPersonal
    THEN Cardinality(Where(tbl, onlyCoverts, onlyPersonal, id))
    ELSE MaxId(Where(tbl, onlyCoverts, onlyPersonal, id))


\* ---------------------------------------------------------------- state

VARIABLES
    table,    \* the items table: a set of rows
    lastId,   \* the last id the table's auto-increment gave out
    jar,      \* the visitor's unboxerId cookie: <<>> or <<value>>
    nUuid,    \* how many identifiers crypto.randomUUID has generated
    calls     \* the bag of the calls made, each with where it stands

vars == <<table, lastId, jar, nUuid, calls>>

\* Return values.
NoRet == [kind |-> "none", item |-> <<>>, rows |-> <<>>, n |-> 0]
RetFalse == [kind |-> "false", item |-> <<>>, rows |-> <<>>, n |-> 0]
RetTrue == [kind |-> "true", item |-> <<>>, rows |-> <<>>, n |-> 0]
RetItem(it) == [kind |-> "item", item |-> <<it>>, rows |-> <<>>, n |-> 0]
RetRows(rs) == [kind |-> "rows", item |-> <<>>, rows |-> rs, n |-> 0]
RetNumber(n) == [kind |-> "number", item |-> <<>>, rows |-> <<>>, n |-> n]
\* The promise the caller holds is rejected.
Thrown == [kind |-> "throw", item |-> <<>>, rows |-> <<>>, n |-> 0]

\* A call as its request arrives: the request carries the cookie of the jar.
\*   pc    "await" while the call awaits the database, then "done"
\*   bg    the promise handed to waitUntil: "none", "pending", "ok",
\*         "failed" (insert threw, caught), "invalid" (validation failed),
\*         "rejected" (getOrCreateUnboxerIdCookie threw)
\*   store the request's cookie store, set its Set-Cookie, sent whether
\*         the browser has the response
\*   uid   <<>> or <<the identifier getOrCreateUnboxerIdCookie returned>>
\*   gen   whether crypto.randomUUID ran
\*   vals  the values of the insert awaited
\*   ids   the ids of the rows the call inserted
\*   seen  the table as the call's select read it
NewCall(op) ==
    [op |-> op, caseId |-> "", data |-> <<>>, onlyCoverts |-> FALSE,
     onlyPersonal |-> FALSE, reqCookie |-> jar, store |-> jar, set |-> <<>>,
     sent |-> TRUE, uid |-> <<>>, gen |-> FALSE, pc |-> "done", bg |-> "none",
     vals |-> <<>>, ids |-> {}, seen |-> {}, ret |-> NoRet]

\* The call after getOrCreateUnboxerIdCookie gave g.
WithCookie(c, g) ==
    [c EXCEPT !.store = g.store, !.set = g.set,
              !.uid = IF g.threw THEN <<>> ELSE <<g.id>>, !.gen = g.gen]

Generated(g) == IF g.gen THEN 1 ELSE 0

\* What the browser holds once the response of call c arrived.
Received(c) == IF c.set # <<>> THEN c.set ELSE jar

Started(c) == calls (+) SetToBag({c})
Moved(c, d) == (calls (-) SetToBag({c})) (+) SetToBag({d})
Calls == BagToSet(calls)

\* The cookie a visitor arrives with: none, a well-formed one, one whose
\* version digit the pattern refuses.
InitCookies ==
    {<<>>,
     <<"3b241101-e2bb-4255-8caf-4136c566a962">>,
     <<"3b241101-e2bb-6255-8caf-4136c566a962">>}

\* More of them: upper case, not a UUID, a variant digit the pattern
\* refuses, a line break after a well-formed one.
MoreCookies ==
    InitCookies \cup
    {<<"3B241101-E2BB-4255-8CAF-4136C566A962">>,
     <<"not-a-uuid">>,
     <<"3b241101-e2bb-4255-ccaf-4136c566a962">>,
     <<"3b241101-e2bb-4255-8caf-4136c566a962\n">>}

Init ==
    /\ table = {}
    /\ lastId = 0
    /\ jar \in InitCookies
    /\ nUuid = 0
    /\ calls = EmptyBag

\* -------------------------------------------------------------- actions

\* unboxCase(caseId), to its return; addItemToDB runs to its first await
\* inside it, and its insert is left to waitUntil.
UnboxCase(room, caseId) ==
    /\ room
    /\ LET found == FindCase(caseId)
           c0 == [NewCall("unboxCase") EXCEPT !.caseId = caseId]
       IN  IF found = <<>>
           THEN /\ calls' = Started([c0 EXCEPT !.ret = RetFalse])
                /\ UNCHANGED <<table, lastId, jar, nUuid>>
           ELSE \E openedItem \in GetItem(found[1]), setOk \in BOOLEAN :
                  LET caseData == found[1]
                      c1 == [c0 EXCEPT !.ret = RetItem(openedItem)]
                      g == GetOrCreateUnboxerIdCookie(jar, nUuid, setOk)
                  IN  IF ~IsPersisted(caseData)
                      THEN /\ calls' = Started(c1)
                           /\ UNCHANGED <<table, lastId, jar, nUuid>>
                      ELSE IF ~DataSchema([caseData |-> caseData, itemData |-> openedItem])
                      THEN /\ calls' = Started([c1 EXCEPT !.bg = "invalid"])
                           /\ UNCHANGED <<table, lastId, jar, nUuid>>
                      ELSE IF g.threw
                      THEN /\ calls' = Started([WithCookie(c1, g) EXCEPT !.bg = "rejected"])
                           /\ nUuid' = nUuid + Generated(g)
                           /\ UNCHANGED <<table, lastId, jar>>
                      ELSE /\ calls' = Started(
                                  [WithCookie(c1, g) EXCEPT
                                      !.bg = "pending", !.sent = (g.set = <<>>),
                                      !.vals = <<ValuesOfItem(caseData, openedItem, g.id)>>])
                           /\ nUuid' = nUuid + Generated(g)
                           /\ UNCHANGED <<table, lastId, jar>>

\* The insert awaited by unboxCase, its failure returned to the caller.
DeferredInsert_Awaited(c) ==
    /\ c.op = "unboxCase" /\ c.bg = "pending"
    /\ \E ok \in BOOLEAN :
         IF ok
         THEN /\ table' = InsertRows(table, lastId, c.vals)
              /\ lastId' = lastId + Len(c.vals)
              /\ calls' = Moved(c, [c EXCEPT !.bg = "ok",
                                       !.ids = lastId + 1 .. lastId + Len(c.vals)])
         ELSE /\ calls' = Moved(c, [c EXCEPT !.bg = "failed", !.ret = RetFalse])
              /\ UNCHANGED <<table, lastId>>
    /\ UNCHANGED <<jar, nUuid>>

\* The insert of the addItemToDB that unboxCase left to waitUntil.
DeferredInsert(c) ==
    /\ c.op = "unboxCase" /\ c.bg = "pending"
    /\ \E ok \in BOOLEAN :
         IF ok
         THEN /\ table' = InsertRows(table, lastId, c.vals)
              /\ lastId' = lastId + Len(c.vals)
              /\ calls' = Moved(c, [c EXCEPT !.bg = "ok",
                                       !.ids = lastId + 1 .. lastId + Len(c.vals)])
         ELSE /\ calls' = Moved(c, [c EXCEPT !.bg = "failed"])
              /\ UNCHANGED <<table, lastId>>
    /\ UNCHANGED <<jar, nUuid>>

\* The browser receives the response of unboxCase, and its Set-Cookie.
Deliver(c) ==
    /\ c.op = "unboxCase" /\ ~c.sent
    /\ jar' = Received(c)
    /\ calls' = Moved(c, [c EXCEPT !.sent = TRUE])
    /\ UNCHANGED <<table, lastId, nUuid>>

\* addItemToDB(caseData, itemData), to its first await of the database.
AddItemToDB(room, d) ==
    /\ room
    /\ \E setOk \in BOOLEAN :
         LET c0 == [NewCall("addItemToDB") EXCEPT !.data = <<d>>]
             g == GetOrCreateUnboxerIdCookie(jar, nUuid, setOk)
         IN  IF ~DataSchema(d)
             THEN /\ calls' = Started([c0 EXCEPT !.ret = RetFalse])
                  /\ UNCHANGED nUuid
             ELSE IF g.threw
             THEN /\ calls' = Started([WithCookie(c0, g) EXCEPT !.ret = Thrown])
                  /\ nUuid' = nUuid + Generated(g)
             ELSE /\ calls' = Started(
                         [WithCookie(c0, g) EXCEPT
                             !.pc = "await", !.sent = FALSE,
                             !.vals = <<ValuesOfItem(d.caseData, d.itemData, g.id)>>])
                  /\ nUuid' = nUuid + Generated(g)
    /\ UNCHANGED <<table, lastId, jar>>

\* addItemsToDB(data), to its first await of the database.
AddItemsToDB(room, data) ==
    /\ room
    /\ \E setOk \in BOOLEAN :
         LET c0 == [NewCall("addItemsToDB") EXCEPT !.data = data]
             g == GetOrCreateUnboxerIdCookie(jar, nUuid, setOk)
         IN  IF ~ArraySchema(data)
             THEN /\ calls' = Started([c0 EXCEPT !.ret = RetFalse])
                  /\ UNCHANGED nUuid
             ELSE IF g.threw
             THEN /\ calls' = Started([WithCookie(c0, g) EXCEPT !.ret = Thrown])
                  /\ nUuid' = nUuid + Generated(g)
             ELSE /\ calls' = Started(
                         [WithCookie(c0, g) EXCEPT
                             !.pc = "await", !.sent = FALSE,
                             !.vals = ValuesOfItems(data, g.id)])
                  /\ nUuid' = nUuid + Generated(g)
    /\ UNCHANGED <<table, lastId, jar>>

\* The awaited insert of addItemToDB or addItemsToDB ends, the call returns
\* and the browser receives the response.  .values([]) throws.
InsertDone(c) ==
    /\ c.op \in {"addItemToDB", "addItemsToDB"} /\ c.pc = "await"
    /\ \E ok \in (IF c.vals = <<>> THEN {FALSE} ELSE BOOLEAN) :
         IF ok
         THEN /\ table' = InsertRows(table, lastId, c.vals)
              /\ lastId' = lastId + Len(c.vals)
              /\ calls' = Moved(c, [c EXCEPT !.pc = "done", !.sent = TRUE,
                                       !.ret = RetTrue,
                                       !.ids = lastId + 1 .. lastId + Len(c.vals)])
         ELSE /\ calls' = Moved(c, [c EXCEPT !.pc = "done", !.sent = TRUE,
                                       !.ret = RetFalse])
              /\ UNCHANGED <<table, lastId>>
    /\ jar' = Received(c)
    /\ UNCHANGED nUuid

\* getItemsFromDB and getTotalItemsFromDB, to the await of the select.
Query(room, op, onlyCoverts, onlyPersonal) ==
    /\ room
    /\ \E setOk \in BOOLEAN :
         LET c0 == [NewCall(op) EXCEPT !.onlyCoverts = onlyCoverts,
                                      !.onlyPersonal = onlyPersonal]
             g == GetOrCreateUnboxerIdCookie(jar, nUuid, setOk)
         IN  IF ~onlyPersonal
             THEN /\ calls' = Started([c0 EXCEPT !.pc = "await", !.sent = FALSE])
                  /\ UNCHANGED nUuid
             ELSE IF g.threw
             THEN /\ calls' = Started([WithCookie(c0, g) EXCEPT !.ret = RetFalse])
                  /\ nUuid' = nUuid + Generated(g)
             ELSE /\ calls' = Started(
                         [WithCookie(c0, g) EXCEPT !.pc = "await", !.sent = FALSE])
                  /\ nUuid' = nUuid + Generated(g)
    /\ UNCHANGED <<table, lastId, jar>>

GetItemsFromDB(room, onlyCoverts, onlyPersonal) ==
    Query(room, "getItemsFromDB", onlyCoverts, onlyPersonal)

GetTotalItemsFromDB(room, onlyCoverts, onlyPersonal) ==
    Query(room, "getTotalItemsFromDB", onlyCoverts, onlyPersonal)

\* The identifier the where clause of call c compares with.
Requester(c) == IF c.uid = <<>> THEN "" ELSE c.uid[1]

\* The select of getItemsFromDB ends, the call returns.
GetItemsDone(c) ==
    /\ c.op = "getItemsFromDB" /\ c.pc = "await"
    /\ \E ok \in BOOLEAN :
         calls' = Moved(c, [c EXCEPT !.pc = "done", !.sent = TRUE, !.seen = table,
                      !.ret = IF ok
                              THEN RetRows(SelectItems(table, c.onlyCoverts,
                                               c.onlyPersonal, Requester(c)))
                              ELSE RetFalse])
    /\ jar' = Received(c)
    /\ UNCHANGED <<table, lastId, nUuid>>

\* The select of getTotalItemsFromDB ends, the call returns.
GetTotalDone(c) ==
    /\ c.op = "getTotalItemsFromDB" /\ c.pc = "await"
    /\ \E ok \in BOOLEAN :
         calls' = Moved(c, [c EXCEPT !.pc = "done", !.sent = TRUE, !.seen = table,
                      !.ret = IF ok
                              THEN RetNumber(SelectTotal(table, c.onlyCoverts,
                                                 c.onlyPersonal, Requester(c)))
                              ELSE RetFalse])
    /\ jar' = Received(c)
    /\ UNCHANGED <<table, lastId, nUuid>>

\* Whether one more call may start.
Room == BagCardinality(calls) < MaxCalls

Next ==
    \/ \E caseId \in CaseIds : UnboxCase(Room, caseId)
    \/ \E d \in Payloads : AddItemToDB(Room, d)
    \/ \E data \in Batches : AddItemsToDB(Room, data)
    \/ \E oc \in BOOLEAN, op \in BOOLEAN : GetItemsFromDB(Room, oc, op)
    \/ \E oc \in BOOLEAN, op \in BOOLEAN : GetTotalItemsFromDB(Room, oc, op)
    \/ \E c \in Calls : DeferredInsert(c)
    \/ \E c \in Calls : Deliver(c)
    \/ \E c \in Calls : InsertDone(c)
    \/ \E c \in Calls : GetItemsDone(c)
    \/ \E c \in Calls : GetTotalDone(c)

Spec == Init /\ [][Next]_vars

\* ------------------------------------------- one call on a table of any size

SeedRarities == <<"Covert", "Mil-Spec Grade", "Extraordinary">>

OtherUuid == "9f0c2f52-7a1e-4d3b-9c55-0d6f1e2a7b10"

\* Row i of a table whose ids are the multiples of stride: its rarity
\* cycles through SeedRarities when a = 1, and it is the row of the visitor
\* whose cookie is well formed, of another visitor when b divides i.
SeedRow(i, stride, a, b) ==
    [id |-> stride * i, caseId |-> "crate-4001", caseName |-> "Weapon Case",
     caseImage |-> ImgA, itemId |-> "skin-2", itemName |-> "AWP | Asiimov",
     rarity |-> SeedRarities[((i * a) % 3) + 1], phase |-> Null,
     itemImage |-> ImgA,
     unboxerId |-> IF b > 0 /\ i % b = 0 THEN OtherUuid
                   ELSE "3b241101-e2bb-4255-8caf-4136c566a962"]

SeedSizes == (0 .. MaxSmall) \cup (Limit - 1 .. Limit + MaxOver)

InitOne ==
    /\ \E n \in SeedSizes, stride \in {1, 2}, a \in {0, 1}, b \in {0, 2, 60} :
         /\ table = {SeedRow(i, stride, a, b) : i \in 1..n}
         /\ lastId = stride * n
    /\ jar \in MoreCookies
    /\ nUuid = 0
    /\ calls = EmptyBag

\* One call at a time.
Idle == calls = EmptyBag

NextOne ==
    \/ \E caseId \in CaseIds : UnboxCase(Idle, caseId)
    \/ \E d \in AllPayloads : AddItemToDB(Idle, d)
    \/ \E data \in AllBatches : AddItemsToDB(Idle, data)
    \/ \E oc \in BOOLEAN, op \in BOOLEAN : GetItemsFromDB(Idle, oc, op)
    \/ \E oc \in BOOLEAN, op \in BOOLEAN : GetTotalItemsFromDB(Idle, oc, op)
    \/ \E c \in Calls : DeferredInsert(c)
    \/ \E c \in Calls : Deliver(c)
    \/ \E c \in Calls : InsertDone(c)
    \/ \E c \in Calls : GetItemsDone(c)
    \/ \E c \in Calls : GetTotalDone(c)

SpecOne == InitOne /\ [][NextOne]_vars

\* --------------------------------------------------------------- claims

\* The ids of the catalog, and the catalog case of a call of unboxCase.
CatalogIds == {CasesData[i].id.s : i \in 1..Len(CasesData)}
CatalogCase(c) == CHOOSE x \in {CasesData[i] : i \in 1..Len(CasesData)} : x.id.s = c.caseId

IsCustomId(id) == StartsWith(id, "crate-custom")

\* The calls of unboxCase on a catalog case that is not a custom case.
UnboxedStored ==
    {c \in Calls : c.op = "unboxCase" /\ c.caseId \in CatalogIds /\ ~IsCustomId(c.caseId)}

\* The rows of the table that call c inserted.
RowsOf(c) == {r \in table : r.id \in c.ids}

\* Row r records the case and the item that call c of unboxCase returned,
\* under the identifier resolved for the caller.
RowMatches(r, c) ==
    LET cd == CatalogCase(c)
        it == c.ret.item[1]
    IN  /\ r.caseId = cd.id.s /\ r.caseName = cd.name.s /\ r.caseImage = cd.image.s
        /\ r.itemId = it.id.s /\ r.itemName = it.name.s
        /\ r.rarity = it.rarity.name.s /\ r.itemImage = it.image.s
        /\ r.phase = (IF it.phase.k = "string" THEN it.phase ELSE Null)
        /\ c.uid # <<>> /\ r.unboxerId = c.uid[1] /\ c.store = c.uid

\* C1 as claimed: every unboxCase call on a known non-custom case whose
\* deferred insert has run returned an item of the case, and exactly one
\* new row records it.
C1_AsClaimed ==
    \A c \in UnboxedStored :
        c.bg \in {"ok", "failed"} =>
            /\ c.ret.kind = "item" /\ c.ret.item[1] \in GetItem(CatalogCase(c))
            /\ Cardinality(RowsOf(c)) = 1
            /\ \A r \in RowsOf(c) : RowMatches(r, c)

\* C1, amended: unboxCase on a known non-custom case returns an item of that
\* case's list, and at most one new row results from the call: exactly one,
\* with the case's and the item's fields and the identifier resolved for the
\* caller, once the deferred insert has succeeded, and none while it is
\* pending or when the identifier could not be resolved or the insert failed.
C1_AtMostOneMatchingRow ==
    \A c \in UnboxedStored :
        /\ c.ret.kind = "item" /\ c.ret.item[1] \in GetItem(CatalogCase(c))
        /\ c.bg \in {"pending", "ok", "failed", "rejected"}
        /\ Cardinality(c.ids) = (IF c.bg = "ok" THEN 1 ELSE 0)
        /\ Cardinality(RowsOf(c)) = Cardinality(c.ids)
        /\ \A r \in RowsOf(c) : RowMatches(r, c)
        /\ \A d \in Calls : d # c => d.ids \cap c.ids = {}
        /\ CopiesIn(c, calls) > 1 => c.ids = {}

C1_Witness ==
    \E c \in UnboxedStored :
        /\ c.bg = "ok" /\ c.sent /\ c.gen
        /\ \E r \in table : r.id \in c.ids /\ r.rarity = "Covert"

\* C2: unboxCase with an id of no catalog case returns false, schedules no
\* deferred write, inserts no row and leaves the cookie alone.
C2_UnknownCaseReturnsFalse ==
    \A c \in Calls :
        (c.op = "unboxCase" /\ c.caseId \notin CatalogIds) =>
            /\ c.ret = RetFalse /\ c.pc = "done"
            /\ c.bg = "none" /\ c.vals = <<>> /\ c.ids = {}
            /\ c.uid = <<>> /\ c.set = <<>> /\ ~c.gen

C2_Witness ==
    /\ \E c \in Calls : c.op = "unboxCase" /\ c.caseId = "crate-custom-0" /\ c.ret = RetFalse
    /\ \E c \in Calls : c.op = "unboxCase" /\ c.caseId = "crate-0000" /\ c.ret = RetFalse

\* C3: unboxCase on a case whose id starts with "crate-custom" returns the
\* drawn item and neither schedules nor performs a write: no row of the
\* table comes from such a call.
C3_CustomCaseNeverWritten ==
    /\ \A c \in Calls :
         (c.op = "unboxCase" /\ c.caseId \in CatalogIds /\ IsCustomId(c.caseId)) =>
             /\ c.ret.kind = "item" /\ c.ret.item[1] \in GetItem(CatalogCase(c))
             /\ c.bg = "none" /\ c.vals = <<>> /\ c.ids = {}
             /\ c.uid = <<>> /\ c.set = <<>>
    /\ \A c \in Calls : \A r \in table :
         (c.op = "unboxCase" /\ r.id \in c.ids) => ~IsCustomId(r.caseId)

\* A custom case was unboxed, and the table holds a row all the same: one of
\* another case, written by another call.
C3_Witness ==
    /\ \E c \in Calls : c.op = "unboxCase" /\ c.caseId = "crate-custom-1"
                        /\ c.ret = RetItem(ItemKnife)
    /\ \E c \in Calls : c.op = "unboxCase" /\ c.bg = "ok"

\* Neither trusted prefix starts the url.
Untrusted(url) ==
    /\ ~StartsWith(url, "https://raw.githubusercontent.com/ByMykel")
    /\ ~StartsWith(url, "https://steamcdn-a.akamaihd.net/apps/730/icons")

\* Call c of addItemToDB or addItemsToDB carries an element one of whose
\* image urls is untrusted.
HasUntrustedImage(c) ==
    /\ c.op \in {"addItemToDB", "addItemsToDB"}
    /\ \E i \in 1..Len(c.data) :
         \/ c.data[i].caseData.image.k = "string" /\ Untrusted(c.data[i].caseData.image.s)
         \/ c.data[i].itemData.image.k = "string" /\ Untrusted(c.data[i].itemData.image.s)

\* C4: addItemToDB, and addItemsToDB with a batch, one of whose image urls
\* starts with neither trusted prefix returns false at once and leaves the
\* table as it was: no element of the batch is written.
C4_UntrustedImageWritesNothing ==
    [][\A c \in BagToSet(calls') :
          HasUntrustedImage(c) =>
              /\ c.ret = RetFalse /\ c.pc = "done" /\ c.vals = <<>> /\ c.ids = {}
              /\ c.uid = <<>> /\ c.set = <<>>
              /\ CopiesIn(c, calls') > CopiesIn(c, calls) => table' = table]_vars

C4_Witness ==
    /\ table # {}
    /\ \E c \in Calls : /\ c.op = "addItemsToDB" /\ c.ret = RetFalse
                        /\ c.data = <<GoodPlain, BadItemImage>>

\* The well-formed identifiers among the cookies a visitor arrives with,
\* and the identifiers crypto.randomUUID gives.
WellFormedCookies ==
    {"3b241101-e2bb-4255-8caf-4136c566a962", "3B241101-E2BB-4255-8CAF-4136C566A962"}
FreshIds ==
    {"00000001-0000-4000-8000-000000000000", "00000002-0000-4000-8000-000000000000",
     "00000003-0000-4000-8000-000000000000", "00000004-0000-4000-8000-000000000000"}

Kept(c, tbl) ==
    {r \in tbl : /\ c.onlyCoverts => r.rarity \in {"Covert", "Extraordinary"}
                 /\ c.onlyPersonal => (c.uid # <<>> /\ r.unboxerId = c.uid[1])}

\* C6: getItemsFromDB returns the rows its flags keep, the 100 of the
\* highest ids when there are more, by descending id.
C6_NewestHundredOfKept ==
    \A c \in Calls :
        (c.op = "getItemsFromDB" /\ c.ret.kind = "rows") =>
            LET rs == c.ret.rows
                kept == Kept(c, c.seen)
                got == {rs[j] : j \in 1..Len(rs)}
            IN  /\ Len(rs) = (IF Cardinality(kept) > 100 THEN 100 ELSE Cardinality(kept))
                /\ got \subseteq kept
                /\ \A j \in 1..Len(rs) - 1 : rs[j].id > rs[j + 1].id
                /\ \A r \in kept \ got : r.id < rs[Len(rs)].id

C6_Witness ==
    \E c \in Calls :
        /\ c.op = "getItemsFromDB" /\ c.ret.kind = "rows"
        /\ c.onlyCoverts /\ c.onlyPersonal
        /\ Len(c.ret.rows) = 100
        /\ Cardinality(Kept(c, c.seen)) > 100
        /\ Cardinality(c.seen) > Cardinality(Kept(c, c.seen))

\* C7 as claimed: no call of an exported action ends with an exception, and
\* an insert action that did not return true returned false and wrote no row.
C7_NoExceptionReachesCaller ==
    \A c \in Calls :
        /\ c.ret.kind # "throw"
        /\ (c.op \in {"addItemToDB", "addItemsToDB"} /\ c.pc = "done" /\ c.ret # RetTrue)
               => (c.ret = RetFalse /\ c.ids = {})

\* C8 as claimed: the calls of one visitor are given one identifier, and the
\* rows written for the visitor carry it.
C8_OneIdentifierPerVisitor ==
    /\ Cardinality({c.uid : c \in {d \in Calls : d.uid # <<>>}}) <= 1
    /\ \A r1 \in table, r2 \in table : r1.unboxerId = r2.unboxerId

C10_MaxIdOrExactCount ==
    /\ table = {} \/ \E r \in table : r.id >= Cardinality(table)
    /\ \A c \in Calls :
         (c.op = "getTotalItemsFromDB" /\ c.ret.kind = "number") =>
             IF c.onlyCoverts \/ c.onlyPersonal
             THEN c.ret.n = Cardinality(Kept(c, c.seen))
             ELSE /\ c.ret.n >= Cardinality(c.seen)
                  /\ \A r \in c.seen : r.id <= c.ret.n
                  /\ IF c.seen = {} THEN c.ret.n = 0
                     ELSE \E r \in c.seen : r.id = c.ret.n

C10_Witness ==
    \E c \in Calls :
        /\ c.op = "getTotalItemsFromDB" /\ c.ret.kind = "number"
        /\ c.onlyCoverts /\ c.onlyPersonal
        /\ c.ret.n > 100 /\ c.ret.n < Cardinality(c.seen)
        /\ \E r \in c.seen : r.id > c.ret.n + 100

=============================================================================
